---- MODULE Spec2Model ----
(***************************************************************************)
(* Model of the smart load balancer coordinator:                           *)
(*   src/model_manager.py              SmartModelManager (catalog,         *)
(*                                     assignment engine)                  *)
(*   src/smart_load_balancer_server.py SmartLoadBalancerServer (registry,  *)
(*                                     RPC handlers, console loop)         *)
(*                                                                         *)
(* Conventions.  Python dicts keep insertion order, so the registry        *)
(* self.clients is a sequence of records in insertion order.  Parameter    *)
(* counts are kept in millions (1B = 1000) so that 70e9 fits an integer.   *)
(* Python's None is the string "None".                                     *)
(***************************************************************************)
EXTENDS Integers, Sequences, FiniteSets, TLC

\* ------------------------------------------------------------------ bounds
\* Worker ids given to the assignment engine are 1..MaxClients.
MaxClients == 3
\* Worker ids that register with the server are 1..MaxRegistered.
MaxRegistered == 2
\* Longest `ollama list` output (model lines) the discovery can see.
MaxListing == 2
\* RPC handler threads running at once (the pool has 20, line 528).
MaxHandlers == 2
\* Longest `ollama list` output where the threads are followed step by step.
MaxConcListing == 1

\* Workers of one dispatch
MaxWorkers == 2

\* Largest cpu_cores, cpu_frequency_ghz (in halves of a GHz) and ram_gb (in
\* halves of a GB) given to the performance evaluator, in absolute value
MaxCores == 14
MaxFrequency == 7
MaxRam == 40

\* Longest catalog add_custom_model is let to build
MaxCatalog == 3

\* Ticks of the clock
MaxTime == 2

None == "None"

ClientIds == 1..MaxClients
\* performance_score values a worker may report (request.specs.performance_score)
Scores == {50, 90}

Range(f) == {f[i] : i \in DOMAIN f}

Min(a, b) == IF a <= b THEN a ELSE b

\* A Python list with the elements of f, each computed once
List(f) == f \o <<>>

\* Python's sorted(seq, key=..., reverse=...): a stable sort.  keys[i] is the
\* key of seq[i]; elements with equal keys keep their original order, also
\* with reverse=True.
Sorted(seq, keys, reverse) ==
    LET n == Len(seq)
        before(j, i) == IF reverse THEN keys[j] > keys[i] ELSE keys[j] < keys[i]
        pos == List([i \in 1..n |->
                   Cardinality({j \in 1..n :
                       \/ before(j, i)
                       \/ (keys[j] = keys[i] /\ j < i)}) + 1])
    IN  List([k \in 1..n |-> seq[CHOOSE i \in 1..n : pos[i] = k]])

\* ------------------------------------------------ model catalog (ModelInfo)
\* ModelInfo.__post_init__: complexity score from the parameter count
\* (parameters in millions).
ComplexityOfSwapped(parameters) ==
    IF parameters >= 70000 THEN 10
    ELSE IF parameters >= 30000 THEN 9
    ELSE IF parameters >= 13000 THEN 8
    ELSE IF parameters >= 8000 THEN 6
    ELSE IF parameters >= 7000 THEN 7
    ELSE IF parameters >= 3000 THEN 5
    ELSE IF parameters >= 1000 THEN 4
    ELSE IF parameters >= 500 THEN 3
    ELSE IF parameters >= 100 THEN 2
    ELSE 1

ComplexityOf(parameters) ==
    IF parameters >= 70000 THEN 10
    ELSE IF parameters >= 30000 THEN 9
    ELSE IF parameters >= 13000 THEN 8
    ELSE IF parameters >= 8000 THEN 7
    ELSE IF parameters >= 7000 THEN 6
    ELSE IF parameters >= 3000 THEN 5
    ELSE IF parameters >= 1000 THEN 4
    ELSE IF parameters >= 500 THEN 3
    ELSE IF parameters >= 100 THEN 2
    ELSE 1

\* The dataclass: name, parameters, complexity_score (size_gb is carried by
\* no decision and is left out).  There is no supports_vision field.
ModelInfo(name, parameters, complexity_score) ==
    [name |-> name,
     parameters |-> parameters,
     complexity_score |-> IF complexity_score = 0
                          THEN ComplexityOf(parameters)
                          ELSE complexity_score]

\* Identifiers `ollama list` may print on the coordinator.
ListedNames ==
    {"llama3.2:1b", "gemma2:2b", "llama3.1:8b", "nomic-embed-text"}

\* _parse_model_info on those identifiers: the known_models patterns, then
\* the first "<digits>b" token, else None.  Result in millions, 0 for None.
\*   llama3.2:1b       r'llama3\.2:(\d+)b'  -> 1e9
\*   llama3.1:8b       r'llama3\.1:(\d+)b'  -> 8e9
\*   gemma3:1b         no family pattern (gemma:(\d+)b needs "gemma:");
\*                     first (\d+)b token is "1b" -> 1e9
\*   gemma2:2b         likewise, "2b" -> 2e9
\*   nomic-embed-text  no pattern, no (\d+)b token -> None
ParsedParameters(model_name) ==
    CASE model_name = "llama3.2:1b" -> 1000
      [] model_name = "llama3.2:3b" -> 3000
      [] model_name = "llama3.1:8b" -> 8000
      [] model_name = "gemma3:1b" -> 1000
      [] model_name = "gemma2:2b" -> 2000
      [] OTHER -> 0

\* An absent ModelInfo (Optional[ModelInfo] = None)
NoModelInfo == [name |-> None, parameters |-> 0, complexity_score |-> 0]

ParseModelInfo(model_name) ==
    IF ParsedParameters(model_name) = 0
    THEN NoModelInfo
    ELSE ModelInfo(model_name, ParsedParameters(model_name), 0)

\* _use_default_models
DefaultModels ==
    << ModelInfo("llama3.2:1b", 1000, 0),
       ModelInfo("llama3.2:3b", 3000, 0),
       ModelInfo("llama3.1:8b", 8000, 0) >>

\* What `ollama list` can yield: a failure (non-zero exit, timeout, missing
\* binary) or a listing, a sequence of distinct identifiers.
Failed == <<"failed">>
Listings ==
    {l \in UNION {[1..n -> ListedNames] : n \in 0..MaxListing} :
        \A i, j \in DOMAIN l : i # j => l[i] # l[j]}

\* key=lambda x: x.parameters
ParametersOf(models) == [i \in DOMAIN models |-> models[i].parameters]

\* Mutant of DiscoverAvailableModels: a listing with nothing parseable in it
\* gives the empty catalog
DiscoverAvailableModelsAsListed(outcome) ==
    IF outcome = Failed
    THEN DefaultModels
    ELSE LET parsed == [i \in DOMAIN outcome |-> ParseModelInfo(outcome[i])]
             models_found == SelectSeq(parsed, LAMBDA m : m # NoModelInfo)
         IN  Sorted(models_found, ParametersOf(models_found), FALSE)

\* discover_available_models: the catalog after a discovery whose
\* subprocess outcome is `outcome`.
DiscoverAvailableModels(outcome) ==
    IF outcome = Failed
    THEN DefaultModels
    ELSE LET parsed == [i \in DOMAIN outcome |-> ParseModelInfo(outcome[i])]
             models_found == SelectSeq(parsed, LAMBDA m : m # NoModelInfo)
         IN  IF models_found # <<>>
             THEN Sorted(models_found, ParametersOf(models_found), FALSE)
             ELSE DefaultModels

DiscoveryOutcomes == {Failed} \cup Listings

\* Every catalog a discovery can leave behind
DiscoverableCatalogs == {DiscoverAvailableModels(o) : o \in DiscoveryOutcomes}

\* get_model_info: first catalog entry with that name, else None
GetModelInfo(models, model_name) ==
    IF \E i \in DOMAIN models : models[i].name = model_name
    THEN models[CHOOSE i \in DOMAIN models :
                   /\ models[i].name = model_name
                   /\ \A j \in 1..(i - 1) : models[j].name # model_name]
    ELSE NoModelInfo

\* -------------------------------------------------------- assignment engine
\* key=lambda x: x[1]['specs']['performance_score']
ScoresOf(cl) == [i \in DOMAIN cl |-> cl[i].performance_score]

\* Mutant of SortedClients: ties in score ordered by client_id
SortedClientsById(cl) ==
    LET n == Len(cl)
        pos == List([i \in 1..n |->
                   Cardinality({j \in 1..n :
                       \/ cl[j].performance_score > cl[i].performance_score
                       \/ /\ cl[j].performance_score = cl[i].performance_score
                          /\ cl[j].client_id < cl[i].client_id}) + 1])
    IN  List([k \in 1..n |-> cl[CHOOSE i \in 1..n : pos[i] = k].client_id])

\* Mutant of SortedClients: the sort without reverse=True
SortedClientsAscending(cl) ==
    LET s == Sorted(cl, ScoresOf(cl), FALSE)
    IN  List([k \in DOMAIN s |-> s[k].client_id])

\* assign_models_to_clients, lines 197-199: ids in score-descending order
SortedClients(cl) ==
    LET s == Sorted(cl, ScoresOf(cl), TRUE)
    IN  List([k \in DOMAIN s |-> s[k].client_id])

\* Mutant of CreatePerformanceGroups: the last groups get the extra client
CreatePerformanceGroupsExtraLast(sorted_clients, num_groups) ==
    IF num_groups <= 0 \/ sorted_clients = <<>>
    THEN <<>>
    ELSE LET total_clients == Len(sorted_clients)
             base_size == total_clients \div num_groups
             extra_clients == total_clients % num_groups
             late(g) == IF g > num_groups - extra_clients
                        THEN g - (num_groups - extra_clients) ELSE 0
             start_idx(g) == g * base_size + late(g)
             group_size(g) == base_size +
                              (IF g >= num_groups - extra_clients THEN 1 ELSE 0)
         IN  IF total_clients <= num_groups
             THEN List([k \in 1..total_clients |-> << sorted_clients[k] >>])
             ELSE List([k \in 1..num_groups |->
                          SubSeq(sorted_clients,
                                 start_idx(k - 1) + 1,
                                 start_idx(k - 1) + group_size(k - 1))])

\* _create_performance_groups
CreatePerformanceGroups(sorted_clients, num_groups) ==
    IF num_groups <= 0 \/ sorted_clients = <<>>
    THEN <<>>
    ELSE LET total_clients == Len(sorted_clients)
             base_size == total_clients \div num_groups
             extra_clients == total_clients % num_groups
             \* start index (0-based) of group g (0-based)
             start_idx(g) == g * base_size + Min(g, extra_clients)
             group_size(g) == base_size + (IF g < extra_clients THEN 1 ELSE 0)
         IN  IF total_clients <= num_groups
             THEN List([k \in 1..total_clients |-> << sorted_clients[k] >>])
             ELSE List([k \in 1..num_groups |->
                          SubSeq(sorted_clients,
                                 start_idx(k - 1) + 1,
                                 start_idx(k - 1) + group_size(k - 1))])

\* key=lambda x: x.complexity_score
ComplexityScoresOf(models) == [i \in DOMAIN models |-> models[i].complexity_score]

\* Mutant of SortedModels: the sort without reverse=True
SortedModelsAscending(models) ==
    Sorted(models, ComplexityScoresOf(models), FALSE)

\* line 207: sorted(self.available_models, key=complexity_score, reverse=True)
SortedModels(models) == Sorted(models, ComplexityScoresOf(models), TRUE)

\* The outcomes of random.choice(client_group), one per group.
RECURSIVE Selections(_)
Selections(groups) ==
    IF groups = <<>>
    THEN {<<>>}
    ELSE LET n == Len(groups)
         IN  {Append(s, c) : s \in Selections(SubSeq(groups, 1, n - 1)),
                             c \in Range(groups[n])}

\* Mutant of GroupAssignments: the model list indexed from its other end
GroupAssignmentsReversed(groups, sorted_models, selected) ==
    LET idx == {i \in DOMAIN groups : i <= Len(sorted_models)}
        last(c) == CHOOSE i \in idx :
                      selected[i] = c /\ \A j \in idx : selected[j] = c => j <= i
    IN  [c \in {selected[i] : i \in idx} |->
            sorted_models[Len(sorted_models) - last(c) + 1].name]

\* lines 209-215: the designated model of each group goes to its selected
\* client (a later group overwrites an earlier one on the same key).
GroupAssignments(groups, sorted_models, selected) ==
    LET idx == {i \in DOMAIN groups : i <= Len(sorted_models)}
        last(c) == CHOOSE i \in idx :
                      selected[i] = c /\ \A j \in idx : selected[j] = c => j <= i
    IN  [c \in {selected[i] : i \in idx} |-> sorted_models[last(c)].name]

\* Mutant of RemainingClients: the filter on assigned_clients forgotten
RemainingClientsAll(sorted_clients, assigned_clients) == sorted_clients

\* line 223
RemainingClients(sorted_clients, assigned_clients) ==
    SelectSeq(sorted_clients, LAMBDA cid : cid \notin assigned_clients)

\* Mutant of RoundRobin: no wrap-around (clients past the last model are
\* skipped)
RoundRobinNoWrap(remaining_clients, models) ==
    [c \in {remaining_clients[k] : k \in 1..Min(Len(remaining_clients), Len(models))} |->
        LET i == CHOOSE k \in DOMAIN remaining_clients :
                     remaining_clients[k] = c
        IN  models[i].name]

\* Mutant of RoundRobin: the catalog walked from its largest model down
RoundRobinDescending(remaining_clients, models) ==
    [c \in Range(remaining_clients) |->
        LET i == CHOOSE k \in DOMAIN remaining_clients :
                     remaining_clients[k] = c
        IN  models[Len(models) - ((i - 1) % Len(models))].name]

\* lines 225-228: round-robin over self.available_models
RoundRobin(remaining_clients, models) ==
    [c \in Range(remaining_clients) |->
        LET i == CHOOSE k \in DOMAIN remaining_clients :
                     remaining_clients[k] = c
        IN  models[((i - 1) % Len(models)) + 1].name]

\* dict update: entries of g override those of f
Merge(f, g) == g @@ f

EmptyLocals ==
    [sorted_clients |-> <<>>, groups |-> <<>>, sorted_models |-> <<>>,
     selected |-> <<>>, remaining_clients |-> <<>>]

\* The local variables of assign_models_to_clients at its return, for the
\* outcome `selected` of the random choices.
AssignLocals(cl, models, selected) ==
    LET sorted_clients == SortedClients(cl)
        groups == CreatePerformanceGroups(sorted_clients, Len(models))
        sorted_models == SortedModels(models)
        first == GroupAssignments(groups, sorted_models, selected)
    IN  [sorted_clients |-> sorted_clients,
         groups |-> groups,
         sorted_models |-> sorted_models,
         selected |-> selected,
         remaining_clients |-> RemainingClients(sorted_clients, DOMAIN first)]

\* The dict `assignments` at line 230, from the locals l of the call
Assignments(l, models) ==
    Merge(GroupAssignments(l.groups, l.sorted_models, l.selected),
          RoundRobin(l.remaining_clients, models))

\* assign_models_to_clients: the returned dict
AssignModelsToClients(cl, models, selected) ==
    IF cl = <<>> \/ models = <<>>
    THEN <<>>
    ELSE Assignments(AssignLocals(cl, models, selected), models)

\* The random outcomes possible for a call on (cl, models)
SelectionsFor(cl, models) ==
    IF cl = <<>> \/ models = <<>>
    THEN {<<>>}
    ELSE Selections(CreatePerformanceGroups(SortedClients(cl), Len(models)))

\* ------------------------------------------------------------------- state
VARIABLES
    clients,            \* SmartLoadBalancerServer.clients, in insertion order
    available_models,   \* SmartModelManager.available_models
    model_assignments,  \* SmartModelManager.model_assignments
    locals,             \* locals of the last assign_models_to_clients call
    request,            \* the RegisterClient request handled in this step
    prior,              \* id and specs of the record request's line 65 overwrote
    response,           \* the RPC response returned in this step
    lock,               \* holder of SmartLoadBalancerServer._lock, 0 if free
    pc,                 \* per thread: where it stands in its handler
    frame,              \* per thread: the handler's request and `assignments`
    ai_request,         \* the ProcessRequest call being served
    dpc,                \* where that call stands in process_distributed_query
    tasks,              \* per fanned-out client: its process_client_request thread
    monitor,            \* _monitor_client_progress: completed_clients and its polls
    responses,          \* the list `responses` of process_distributed_query
    summary,            \* locals and result of _create_intelligent_summary
    ai_response,        \* the AIResponse ProcessRequest returned
    specs,              \* the dict given to _calculate_performance_score
    performance_score,  \* what _calculate_performance_score returned
    now,                \* time.time(), in ticks
    ollama              \* what `ollama list` gives at present

\* the registry, the model manager and the observations of one step
seq_vars == << clients, available_models, model_assignments, locals, request, prior,
               response >>
\* the threads
thread_vars == << lock, pc, frame >>

\* one dispatch
dispatch_vars == << ai_request, dpc, tasks, monitor, responses, summary, ai_response >>
\* the performance evaluator
eval_vars == << specs, performance_score >>
\* the clock and the coordinator's ollama
world_vars == << now, ollama >>
aux_vars == << dispatch_vars, eval_vars, world_vars >>

vars == << seq_vars, thread_vars, aux_vars >>

\* Thread 0 is the main thread (the console loop), 1..MaxHandlers are the
\* RPC handler threads.
Console == 0
Handlers == 1..MaxHandlers
Threads == {Console} \cup Handlers

NoFrame == [req |-> [client_id |-> 0, performance_score |-> 0, models |-> <<>>,
                     ip_address |-> None],
            assignments |-> <<>>]

ThreadsIdle ==
    /\ lock = 0
    /\ pc = [t \in Threads |-> "idle"]
    /\ frame = [t \in Threads |-> NoFrame]

\* No ProcessRequest call yet
NoAIRequest == [request_id |-> None, prompt |-> None, images |-> <<>>]

NoSummary ==
    [called |-> FALSE, input |-> <<>>, sorted_responses |-> <<>>,
     model |-> None,
     outcome |-> None, body |-> None, summary_method |-> None, listed |-> <<>>]

NoAIResponse ==
    [request_id |-> None, success |-> FALSE, body |-> None,
     summary_method |-> None, listed |-> <<>>]

\* No GetProcessingStatus call has been made in this monitor loop
NoPoll == [request_id |-> None, client_id |-> 0, status |-> None]

NoMonitor ==
    [start_time |-> 0, completed_clients |-> {}, seen_completed |-> {},
     polled |-> NoPoll]

NoDispatch ==
    /\ ai_request = NoAIRequest
    /\ dpc = "idle"
    /\ tasks = <<>>
    /\ monitor = NoMonitor
    /\ responses = <<>>
    /\ summary = NoSummary
    /\ ai_response = NoAIResponse

\* No specs dict yet
NoSpecs == [os_info |-> None]

\* Where the listing is not followed, each discovery draws its outcome
\* (DiscoveryOutcomes) and `ollama` stays as it is here.
ClockAtStart ==
    /\ now = 0
    /\ ollama = Failed

NotEvaluated ==
    /\ specs = NoSpecs
    /\ performance_score = None

ClientIdsOf(cl) == {cl[i].client_id : i \in DOMAIN cl}

ClientOf(cl, cid) == cl[CHOOSE i \in DOMAIN cl : cl[i].client_id = cid]

NamesOf(models) == {models[i].name : i \in DOMAIN models}

\* Model lists a registering worker may have installed.  RegisterClient
\* reads client_id, hostname, ip_address and specs from the request and
\* nothing about the worker's models.
AdvertisedLists == { <<>>, << "llama3.1:8b", "nomic-embed-text" >> }

\* request.ip_address: the addresses a worker may register from
Addresses == {"10.0.0.1", "10.0.0.2"}

\* Workers that keep their address
Requests ==
    [client_id : 1..MaxRegistered, performance_score : Scores,
     models : AdvertisedLists, ip_address : {"10.0.0.1"}]

\* Workers that may come back from another address
MovedRequests ==
    [client_id : 1..MaxRegistered, performance_score : Scores,
     models : {<<>>}, ip_address : Addresses]

NoRequest == [client_id |-> 0, performance_score |-> 0, models |-> <<>>,
              ip_address |-> None]

\* No record (a key absent from self.clients)
NoClient == [client_id |-> 0, performance_score |-> 0, ip_address |-> None,
             last_seen |-> 0,
             assigned_model |-> None]

NoResponse ==
    [rpc |-> None, success |-> FALSE, assigned_model |-> None, total_clients |-> 0]

\* Mutant of StoreClient: the key deleted and inserted again, which moves
\* an existing worker to the end of the dict
StoreClientReinsert(cl, req) ==
    Append(SelectSeq(cl, LAMBDA c : c.client_id # req.client_id),
           [client_id |-> req.client_id,
            performance_score |-> req.performance_score,
            ip_address |-> req.ip_address,
            last_seen |-> now,
            assigned_model |-> None])

\* lines 65-72: self.clients[client_id] = {...}; an existing key keeps its
\* position in the dict, a new key goes last.
StoreClient(cl, req) ==
    LET rec == [client_id |-> req.client_id,
                performance_score |-> req.performance_score,
                ip_address |-> req.ip_address,
            last_seen |-> now,
                assigned_model |-> None]
    IN  IF req.client_id \in ClientIdsOf(cl)
        THEN List([i \in DOMAIN cl |->
                      IF cl[i].client_id = req.client_id THEN rec ELSE cl[i]])
        ELSE Append(cl, rec)

\* lines 78-80, 166-168, 560-562: copy the returned dict into the records
ApplyAssignments(cl, assignments) ==
    List([i \in DOMAIN cl |->
             IF cl[i].client_id \in DOMAIN assignments
             THEN [cl[i] EXCEPT !.assigned_model = assignments[cl[i].client_id]]
             ELSE cl[i]])

\* line 230 is reached only past the two early returns
AssignmentsField(old, cl, models, assignments) ==
    IF cl = <<>> \/ models = <<>> THEN old ELSE assignments

LocalsAfter(old, cl, models, selected) ==
    IF cl = <<>> \/ models = <<>> THEN old ELSE AssignLocals(cl, models, selected)

\* What the call on (cl, models) that ended with the locals `after` returned
Returned(cl, models, after) ==
    IF cl = <<>> \/ models = <<>> THEN <<>> ELSE Assignments(after, models)

\* line 101 reads model_info.supports_vision
HasSupportsVision(model_info) == "supports_vision" \in DOMAIN model_info

\* RegisterClient lines 82-120: the response.  With a ModelInfo found, line
\* 101 raises AttributeError and the except branch answers.
RegistrationResponse(cid, cl, models, assignments) ==
    LET assigned_model == IF cid \in DOMAIN assignments
                          THEN assignments[cid]
                          ELSE "llama3.2:3b"
        model_info == GetModelInfo(models, assigned_model)
    IN  IF model_info # NoModelInfo /\ ~HasSupportsVision(model_info)
        THEN [rpc |-> "RegisterClient", success |-> FALSE,
              assigned_model |-> "", total_clients |-> Len(cl)]
        ELSE [rpc |-> "RegisterClient", success |-> TRUE,
              assigned_model |-> assigned_model, total_clients |-> Len(cl)]

Init ==
    /\ clients = <<>>
    /\ available_models \in DiscoverableCatalogs
    /\ model_assignments = <<>>
    /\ locals = EmptyLocals
    /\ request = NoRequest
    /\ prior = NoClient
    /\ response = NoResponse
    /\ ThreadsIdle
    /\ NoDispatch
    /\ NotEvaluated
    /\ ClockAtStart

\* RegisterClient for request req, with the handler assigning over the
\* catalog `models` and `selected` the outcome of the random choices.
RegisterStep(req, selected, models) ==
    \E stored \in {StoreClient(clients, req)} :
    \E after \in {LocalsAfter(locals, stored, models, selected)} :
    \E assignments \in {Returned(stored, models, after)} :
    \E updated \in {ApplyAssignments(stored, assignments)} :
        /\ clients' = updated
        /\ available_models' = models
        /\ model_assignments' =
              AssignmentsField(model_assignments, stored, models, assignments)
        /\ locals' = after
        /\ request' = req
        /\ prior' = IF req.client_id \in ClientIdsOf(clients)
                    THEN [ClientOf(clients, req.client_id) EXCEPT
                             !.assigned_model = None]
                    ELSE NoClient
        /\ response' = RegistrationResponse(req.client_id, updated, models, assignments)

\* A catalog with the parseable models of `advertised` merged in
MergeAdvertised(models, advertised) ==
    LET parsed == [i \in DOMAIN advertised |-> ParseModelInfo(advertised[i])]
        fresh == SelectSeq(parsed, LAMBDA m : m # NoModelInfo
                                               /\ m.name \notin NamesOf(models))
    IN  Sorted(models \o fresh, ParametersOf(models \o fresh), FALSE)

\* Mutant of RegisterClient: the worker's models merged into the catalog
\* before the assignment
RegisterClientMerging ==
    \E req \in Requests :
        LET merged == MergeAdvertised(available_models, req.models)
        IN  \E selected \in SelectionsFor(StoreClient(clients, req), merged) :
                RegisterStep(req, selected, merged)

RegisterClient ==
    \E req \in Requests :
        \E selected \in SelectionsFor(StoreClient(clients, req), available_models) :
            RegisterStep(req, selected, available_models)

\* RegisterClient called by workers whose address may have changed
RegisterMoved ==
    \E req \in MovedRequests :
        \E selected \in SelectionsFor(StoreClient(clients, req), available_models) :
            RegisterStep(req, selected, available_models)

\* discover_available_models, then assign_models_to_clients over the
\* registry, then the copy into the records (lines 160-168 and 556-562)
RediscoverAndReassignFrom(catalogs) ==
    \E models \in catalogs :
      \E selected \in SelectionsFor(clients, models) :
        \E after \in {LocalsAfter(locals, clients, models, selected)} :
        \E assignments \in {Returned(clients, models, after)} :
            /\ available_models' = models
            /\ clients' = ApplyAssignments(clients, assignments)
            /\ model_assignments' =
                  AssignmentsField(model_assignments, clients, models, assignments)
            /\ locals' = after

\* with any outcome of `ollama list`
RediscoverAndReassign == RediscoverAndReassignFrom(DiscoverableCatalogs)

\* ReassignModels, where `catalogs` are the catalogs its discovery can build
ReassignModelsKeeping(catalogs) ==
    /\ request' = NoRequest
    /\ prior' = NoClient
    /\ IF clients = <<>>
       THEN /\ response' = [NoResponse EXCEPT !.rpc = "ReassignModels"]
            /\ UNCHANGED << clients, available_models, model_assignments, locals >>
       ELSE /\ RediscoverAndReassignFrom({available_models})
            /\ response' = [NoResponse EXCEPT !.rpc = "ReassignModels",
                                              !.success = TRUE]

ReassignModelsFrom(catalogs) ==
    /\ request' = NoRequest
    /\ prior' = NoClient
    /\ IF clients = <<>>
       THEN /\ response' = [NoResponse EXCEPT !.rpc = "ReassignModels"]
            /\ UNCHANGED << clients, available_models, model_assignments, locals >>
       ELSE /\ RediscoverAndReassignFrom(catalogs)
            /\ response' = [NoResponse EXCEPT !.rpc = "ReassignModels",
                                              !.success = TRUE]

ReassignModels == ReassignModelsFrom(DiscoverableCatalogs)

\* main(), the console command 'reassign'
ConsoleReassign ==
    /\ RediscoverAndReassign
    /\ request' = NoRequest
    /\ prior' = NoClient
    /\ response' = NoResponse

\* One operation per step, each run to its end: what the registry lock
\* gives the two RPC handlers.
Next ==
    \/ RegisterClient /\ UNCHANGED << thread_vars, aux_vars >>
    \/ ReassignModels /\ UNCHANGED << thread_vars, aux_vars >>
    \/ ConsoleReassign /\ UNCHANGED << thread_vars, aux_vars >>

Spec == Init /\ [][Next]_vars

\* ------------------------------------------- the assignment engine alone
\* Registries the server can hold: distinct ids in any insertion order,
\* any score each.  (assigned_model is not read by the engine.)
Registries ==
    {cl \in UNION {[1..n -> [client_id : ClientIds,
                             performance_score : Scores,
                             ip_address : {"10.0.0.1"},
                             last_seen : {0},
                             assigned_model : {None}]] : n \in 0..MaxClients} :
        \A i, j \in DOMAIN cl : i # j => cl[i].client_id # cl[j].client_id}

InitAssign ==
    /\ clients \in Registries
    /\ available_models \in DiscoverableCatalogs
    /\ model_assignments = <<>>
    /\ locals = EmptyLocals
    /\ request = NoRequest
    /\ prior = NoClient
    /\ response = NoResponse
    /\ ThreadsIdle
    /\ NoDispatch
    /\ NotEvaluated
    /\ ClockAtStart

\* One call of assign_models_to_clients(self.clients)
AssignModels ==
    \E selected \in SelectionsFor(clients, available_models) :
        \E assignments \in {AssignModelsToClients(clients, available_models, selected)} :
            /\ model_assignments' =
                  AssignmentsField(model_assignments, clients, available_models,
                                   assignments)
            /\ locals' = LocalsAfter(locals, clients, available_models, selected)
            /\ UNCHANGED << clients, available_models, request, prior, response,
                            thread_vars, aux_vars >>

SpecAssign == InitAssign /\ [][AssignModels]_vars

\* Registrations only, from either address
NextMoves == RegisterMoved /\ UNCHANGED << thread_vars, aux_vars >>

SpecMoves == Init /\ [][NextMoves]_vars

\* ------------------------------------------------ the threads, step by step
\* The same handlers with every thread taking one step at a time.  A
\* handler holds the lock from its `with self._lock:` to the end of that
\* block; the console loop, HealthCheck (lines 239-240) and a dispatch
\* (lines 251-268) read self.clients without the lock, so they can see
\* every state these steps pass through.  The responses and the locals of
\* the assignment engine are not followed here.

ConcRequests == {req \in Requests : req.models = <<>>}

ConcOutcomes == {o \in DiscoveryOutcomes : o = Failed \/ Len(o) <= MaxConcListing}

\* RegisterClient, line 52: enter `with self._lock`
RC_Acquire(h) ==
    /\ pc[h] = "idle"
    /\ lock = 0
    /\ \E req \in ConcRequests :
          frame' = [frame EXCEPT ![h] = [req |-> req, assignments |-> <<>>]]
    /\ lock' = h
    /\ pc' = [pc EXCEPT ![h] = "rc_store"]
    /\ UNCHANGED << seq_vars, aux_vars >>

\* lines 65-72: the record goes in with assigned_model None
RC_Store(h) ==
    /\ pc[h] = "rc_store"
    /\ clients' = StoreClient(clients, frame[h].req)
    /\ pc' = [pc EXCEPT ![h] = "rc_assign"]
    /\ UNCHANGED << aux_vars, available_models, model_assignments, locals, request, prior,
                    response, lock, frame >>

\* assign_models_to_clients(self.clients) called by thread t, which goes on
\* at `then` (lines 75, 163, 557)
CallAssign(t, then) ==
    \E selected \in SelectionsFor(clients, available_models) :
        \E assignments \in {AssignModelsToClients(clients, available_models, selected)} :
            /\ model_assignments' =
                  AssignmentsField(model_assignments, clients, available_models,
                                   assignments)
            /\ frame' = [frame EXCEPT ![t].assignments = assignments]
            /\ pc' = [pc EXCEPT ![t] = then]
            /\ UNCHANGED << aux_vars, clients, available_models, locals, request, prior,
                            response, lock >>

\* line 75
RC_Assign(h) ==
    /\ pc[h] = "rc_assign"
    /\ CallAssign(h, "rc_update")

\* lines 78-80
RC_Update(h) ==
    /\ pc[h] = "rc_update"
    /\ clients' = ApplyAssignments(clients, frame[h].assignments)
    /\ pc' = [pc EXCEPT ![h] = "rc_respond"]
    /\ UNCHANGED << aux_vars, available_models, model_assignments, locals, request, prior,
                    response, lock, frame >>

\* lines 82-120: the response is built and returned; by return or by the
\* exception of line 101 the `with` block is left and the lock released
RC_Respond(h) ==
    /\ pc[h] = "rc_respond"
    /\ lock' = 0
    /\ pc' = [pc EXCEPT ![h] = "idle"]
    /\ frame' = [frame EXCEPT ![h] = NoFrame]
    /\ UNCHANGED << seq_vars, aux_vars >>

\* ReassignModels, lines 151-157: enter the lock; with no client the handler
\* returns at once
RM_Acquire(h) ==
    /\ pc[h] = "idle"
    /\ lock = 0
    /\ clients # <<>>
    /\ lock' = h
    /\ pc' = [pc EXCEPT ![h] = "rm_discover"]
    /\ UNCHANGED << aux_vars, seq_vars, frame >>

\* discover_available_models called by thread t (lines 160, 556)
CallDiscover(t, then) ==
    /\ \E outcome \in ConcOutcomes :
          available_models' = DiscoverAvailableModels(outcome)
    /\ pc' = [pc EXCEPT ![t] = then]
    /\ UNCHANGED << aux_vars, clients, model_assignments, locals, request, prior, response,
                    lock, frame >>

\* line 160
RM_Discover(h) ==
    /\ pc[h] = "rm_discover"
    /\ CallDiscover(h, "rm_assign")

\* line 163
RM_Assign(h) ==
    /\ pc[h] = "rm_assign"
    /\ CallAssign(h, "rm_update")

\* lines 166-187: the records are updated, the response returned and the
\* lock released
RM_Update(h) ==
    /\ pc[h] = "rm_update"
    /\ clients' = ApplyAssignments(clients, frame[h].assignments)
    /\ lock' = 0
    /\ pc' = [pc EXCEPT ![h] = "idle"]
    /\ frame' = [frame EXCEPT ![h] = NoFrame]
    /\ UNCHANGED << aux_vars, available_models, model_assignments, locals, request, prior,
                    response >>

\* main(), 'reassign', line 556: no lock is taken
CS_Discover ==
    /\ pc[Console] = "idle"
    /\ CallDiscover(Console, "cs_assign")

\* lines 557-559
CS_Assign ==
    /\ pc[Console] = "cs_assign"
    /\ CallAssign(Console, "cs_update")

\* lines 560-562
CS_Update ==
    /\ pc[Console] = "cs_update"
    /\ clients' = ApplyAssignments(clients, frame[Console].assignments)
    /\ pc' = [pc EXCEPT ![Console] = "idle"]
    /\ frame' = [frame EXCEPT ![Console] = NoFrame]
    /\ UNCHANGED << aux_vars, available_models, model_assignments, locals, request, prior,
                    response, lock >>

InitConc ==
    /\ clients = <<>>
    /\ available_models \in {DiscoverAvailableModels(o) : o \in ConcOutcomes}
    /\ model_assignments = <<>>
    /\ locals = EmptyLocals
    /\ request = NoRequest
    /\ prior = NoClient
    /\ response = NoResponse
    /\ ThreadsIdle
    /\ NoDispatch
    /\ NotEvaluated
    /\ ClockAtStart

NextConc ==
    \/ \E h \in Handlers :
          \/ RC_Acquire(h) \/ RC_Store(h) \/ RC_Assign(h) \/ RC_Update(h)
          \/ RC_Respond(h)
          \/ RM_Acquire(h) \/ RM_Discover(h) \/ RM_Assign(h) \/ RM_Update(h)
    \/ CS_Discover \/ CS_Assign \/ CS_Update

SpecConc == InitConc /\ [][NextConc]_vars

\* ------------------------------------------------------------ one dispatch
\* ProcessRequest and process_distributed_query take no lock, so a dispatch
\* can find the registry as a handler left it between two of its steps: a
\* worker stored and not yet assigned (lines 65-72), or workers holding
\* models of the catalog before the latest rediscovery (lines 160-168).

\* Catalogs a dispatch can meet: the defaults and one listing
DispatchCatalogs ==
    {DefaultModels, DiscoverAvailableModels(<<"gemma2:2b">>)}

\* Workers in insertion order, before any assignment
WorkerRegistries ==
    {cl \in UNION {[1..n -> [client_id : 1..MaxWorkers,
                             performance_score : Scores,
                             ip_address : {"10.0.0.1"},
                             last_seen : {0},
                             assigned_model : {None}]] : n \in 0..MaxWorkers} :
        \A i \in DOMAIN cl : cl[i].client_id = i}

\* lines 65-72: the record of `joining` as RegisterClient stores it
Stored(cl, joining) ==
    List([i \in DOMAIN cl |->
             IF cl[i].client_id = joining
             THEN [cl[i] EXCEPT !.assigned_model = None]
             ELSE cl[i]])

\* ProcessRequest: request.request_id and request.images
AIRequests ==
    [request_id : {"req-1"}, prompt : {"prompt-1"}, images : {<<>>, <<"image-1">>}]

\* line 278: request_id = str(uuid.uuid4())
InternalRequestId == "uuid4"

\* line 252
NoClientsText == "No clients connected. Please connect clients first."

\* line 345
NoSuccessfulResponsesText == "No successful responses from clients."

\* line 395
SummaryFailedText == "Summary generation failed."

\* response.response_text of the worker client_id
ResponseText(client_id) == "answer of " \o ToString(client_id)

\* stdout of `ollama run` when it is non-empty
OllamaText == "unified answer"

\* subprocess.run at lines 377-379: a summary, empty output, a non-zero
\* exit, or an exception
SummarizerOutcomes == {"ok", "empty", "nonzero", "exception"}

\* What a worker answers to ProcessAIRequest (response.success)
WorkerResults == {"success", "unsuccessful"}

\* A process_client_request thread that has not run yet (lines 332-339),
\* with the request_id of line 278 and the prompt of `req` in its closure;
\* assigned_model and images are those of the AIRequest it builds.
StartedTask(client_id, req) ==
    [client_id |-> client_id, state |-> "started", sent |-> FALSE,
     request_id |-> InternalRequestId, prompt |-> req.prompt,
     vision_model |-> None, assigned_model |-> None,
     images |-> <<>>, reply |-> None, outcome |-> None]

\* A protobuf string field built from `value`: None leaves the field unset,
\* and an unset string reads as the empty string
ProtoString(value) == IF value = None THEN "" ELSE value

FannedOut == {tasks[i].client_id : i \in DOMAIN tasks}

TaskOf(client_id) == tasks[CHOOSE i \in DOMAIN tasks : tasks[i].client_id = client_id]

SetTask(client_id, task) ==
    List([i \in DOMAIN tasks |->
             IF tasks[i].client_id = client_id THEN task ELSE tasks[i]])

\* lines 216-224: the AIResponse around the text of process_distributed_query
AIResponseWithInternalId(req, body, summary_method, listed) ==
    [request_id |-> InternalRequestId, success |-> TRUE, body |-> body,
     summary_method |-> summary_method, listed |-> listed]

AIResponse(req, body, summary_method, listed) ==
    [request_id |-> req.request_id, success |-> TRUE, body |-> body,
     summary_method |-> summary_method, listed |-> listed]

\* ProcessRequest lines 211-214, process_distributed_query lines 251-339:
\* the early return on an empty registry, else one thread per worker.
D_Start ==
    /\ dpc = "idle"
    /\ \E req \in AIRequests :
          /\ ai_request' = req
          /\ IF clients = <<>>
             THEN /\ ai_response' = AIResponse(req, NoClientsText, None, <<>>)
                  /\ dpc' = "done"
                  /\ tasks' = tasks
                  /\ monitor' = monitor
             ELSE /\ tasks' = List([i \in DOMAIN clients |-> StartedTask(clients[i].client_id, req)])
                  /\ dpc' = "monitor"
                  /\ monitor' = [monitor EXCEPT !.start_time = now]
                  /\ ai_response' = ai_response
    /\ UNCHANGED << responses, summary >>
    /\ UNCHANGED << seq_vars, thread_vars, eval_vars, world_vars >>

\* process_client_request lines 286-308, with the reads of the record at
\* lines 291 and 300 in one step.  get_model_info of a model of the
\* catalog returns a ModelInfo, and line 292 reads its supports_vision; the
\* AttributeError ends the thread at line 329.  Else supports_vision is False.
W_Prepare(client_id) ==
    /\ client_id \in FannedOut
    /\ TaskOf(client_id).state = "started"
    /\ LET client_info == ClientOf(clients, client_id)
           model_info == GetModelInfo(available_models, client_info.assigned_model)
           supports_vision == IF model_info # NoModelInfo
                              THEN model_info.supports_vision
                              ELSE FALSE
           client_images == IF supports_vision /\ ai_request.images # <<>>
                            THEN ai_request.images
                            ELSE <<>>
       IN  IF model_info # NoModelInfo /\ ~HasSupportsVision(model_info)
           THEN tasks' = SetTask(client_id,
                   [TaskOf(client_id) EXCEPT !.state = "dead",
                                             !.outcome = "attribute_error"])
           ELSE tasks' = SetTask(client_id,
                   [TaskOf(client_id) EXCEPT
                       !.state = "calling",
                       !.sent = TRUE,
                       !.vision_model = ProtoString(client_info.assigned_model),
                       !.assigned_model = ProtoString(client_info.assigned_model),
                       !.images = client_images])
    /\ UNCHANGED << ai_request, dpc, monitor, responses, summary, ai_response >>
    /\ UNCHANGED << seq_vars, thread_vars, eval_vars, world_vars >>

\* The worker ends its processing; its reply to line 311 is on its way and
\* its status is COMPLETED or ERROR from now on.
WorkerFinish(client_id) ==
    /\ client_id \in FannedOut
    /\ TaskOf(client_id).state = "calling"
    /\ \E result \in WorkerResults :
          tasks' = SetTask(client_id,
                      [TaskOf(client_id) EXCEPT !.state = "replying",
                                                !.reply = result])
    /\ UNCHANGED << ai_request, dpc, monitor, responses, summary, ai_response >>
    /\ UNCHANGED << seq_vars, thread_vars, eval_vars, world_vars >>

\* line 311 raises (connection refused, RPC error): lines 328-329
W_RpcError(client_id) ==
    /\ client_id \in FannedOut
    /\ TaskOf(client_id).state = "calling"
    /\ tasks' = SetTask(client_id,
                   [TaskOf(client_id) EXCEPT !.state = "dead",
                                             !.outcome = "rpc_error"])
    /\ UNCHANGED << ai_request, dpc, monitor, responses, summary, ai_response >>
    /\ UNCHANGED << seq_vars, thread_vars, eval_vars, world_vars >>

\* lines 316-322: the dict appended for a successful response
ResponseOf(client_id) ==
    [client_id |-> client_id,
     model |-> ClientOf(clients, client_id).assigned_model,
     response |-> ResponseText(client_id),
     performance_score |-> ClientOf(clients, client_id).performance_score]

\* line 311 returns: lines 313-326
W_Return(client_id) ==
    /\ client_id \in FannedOut
    /\ TaskOf(client_id).state = "replying"
    /\ tasks' = SetTask(client_id,
                   [TaskOf(client_id) EXCEPT !.state = "dead",
                                             !.outcome = TaskOf(client_id).reply])
    /\ responses' = IF TaskOf(client_id).reply = "success"
                    THEN Append(responses, ResponseOf(client_id))
                    ELSE responses
    /\ UNCHANGED << ai_request, dpc, monitor, summary, ai_response >>
    /\ UNCHANGED << seq_vars, thread_vars, eval_vars, world_vars >>

\* line 486: what stub.GetProcessingStatus(status_request, timeout=5) gives
\* for a worker whose thread is in `task`: the status of the worker, or an
\* exception (RpcError: deadline exceeded, connection refused).  A worker
\* that has ended the prompt reports COMPLETED or ERROR, as it replies.
PollOutcomesOf(task) ==
    {"RpcError"} \cup
    IF task.state = "replying"
    THEN {IF task.reply = "success" THEN "COMPLETED" ELSE "ERROR"}
    ELSE {"QUEUED", "PROCESSING"}

\* lines 488-502: the statuses that add the worker to completed_clients
CompletesWorkerWhileProcessing(status) == status \in {"PROCESSING", "COMPLETED", "ERROR"}

CompletesWorker(status) == status \in {"COMPLETED", "ERROR"}

\* A monitor that goes on waiting for a worker whose thread has ended
EndedStillWaited(client_id) == monitor

\* lines 471-473: the thread of the worker has ended
Ended(client_id) ==
    [monitor EXCEPT !.completed_clients = @ \cup {client_id}]

\* lines 486-509: the poll of the worker gave `status`
PolledCountingFailures(client_id, status) ==
    [monitor EXCEPT
        !.completed_clients = IF CompletesWorker(status) \/ status = "RpcError"
                              THEN @ \cup {client_id} ELSE @,
        !.seen_completed = IF status = "COMPLETED"
                           THEN @ \cup {client_id} ELSE @]

Polled(client_id, status) ==
    [monitor EXCEPT
        !.completed_clients = IF CompletesWorker(status)
                              THEN @ \cup {client_id} ELSE @,
        !.seen_completed = IF status = "COMPLETED"
                           THEN @ \cup {client_id} ELSE @]

\* _monitor_client_progress lines 467-509, one worker of one round: a dead
\* thread is complete; else GetProcessingStatus, where COMPLETED and ERROR
\* complete the worker and any other status or an exception leave it.
M_Poll(client_id) ==
    /\ dpc = "monitor"
    /\ client_id \in FannedOut \ monitor.completed_clients
    /\ LET task == TaskOf(client_id)
       IN  IF task.state = "dead"
           THEN monitor' = Ended(client_id)
           ELSE \E status \in PollOutcomesOf(task) :
                   monitor' = Polled(client_id, status)
    /\ UNCHANGED << ai_request, dpc, tasks, responses, summary, ai_response >>
    /\ UNCHANGED << seq_vars, thread_vars, eval_vars, world_vars >>

\* lines 464 and 511-515: the loop ends once every worker is complete, and
\* each join returns after 5 seconds at the latest.
M_Join ==
    /\ dpc = "monitor"
    /\ monitor.completed_clients = FannedOut
    /\ dpc' = "test"
    /\ monitor' = [monitor EXCEPT !.polled = NoPoll]
    /\ UNCHANGED << ai_request, tasks, responses, summary, ai_response >>
    /\ UNCHANGED << seq_vars, thread_vars, eval_vars, world_vars >>

\* lines 344-345
D_Test ==
    /\ dpc = "test"
    /\ IF responses = <<>>
       THEN /\ ai_response' = AIResponse(ai_request, NoSuccessfulResponsesText,
                                         None, <<>>)
            /\ dpc' = "done"
       ELSE /\ dpc' = "summarize"
            /\ ai_response' = ai_response
    /\ UNCHANGED << ai_request, tasks, monitor, responses, summary >>
    /\ UNCHANGED << seq_vars, thread_vars, eval_vars, world_vars >>

\* key=lambda x: x['performance_score']
PerformanceScoresOf(resps) == [i \in DOMAIN resps |-> resps[i].performance_score]

\* line 355
SortedResponsesAscending(resps) == Sorted(resps, PerformanceScoresOf(resps), FALSE)

SortedResponses(resps) == Sorted(resps, PerformanceScoresOf(resps), TRUE)

\* lines 355-367: the ranking and the prompt over the responses so far
S_Sort ==
    /\ dpc = "summarize"
    /\ summary' = [summary EXCEPT !.called = TRUE,
                                  !.sorted_responses = SortedResponses(responses),
                                  !.input = responses]
    /\ dpc' = "ollama"
    /\ UNCHANGED << ai_request, tasks, monitor, responses, ai_response >>
    /\ UNCHANGED << seq_vars, thread_vars, eval_vars, world_vars >>

\* _format_final_response lines 426-448: the clients of the footer, model
\* by model in the order the models first appear
FirstWithModel(resps) ==
    [i \in DOMAIN resps |->
        CHOOSE j \in DOMAIN resps :
            /\ resps[j].model = resps[i].model
            /\ \A k \in 1..(j - 1) : resps[k].model # resps[i].model]

FooterClients(resps) ==
    LET grouped == Sorted(resps, FirstWithModel(resps), FALSE)
    IN  List([i \in DOMAIN grouped |-> grouped[i].client_id])

\* lines 381-391: the summary text and summary_method after `outcome`
SummaryOfPlaceholder(outcome, best_client) ==
    IF outcome = "ok"
    THEN [body |-> OllamaText, summary_method |-> "Local Ollama"]
    ELSE IF outcome = "exception"
    THEN [body |-> SummaryFailedText, summary_method |-> "Error"]
    ELSE [body |-> best_client.response, summary_method |-> "Best Client"]

SummaryOf(outcome, best_client) ==
    IF outcome = "ok"
    THEN [body |-> OllamaText, summary_method |-> "Local Ollama"]
    ELSE [body |-> best_client.response, summary_method |-> "Best Client"]

\* lines 370-391, then ProcessRequest lines 216-224
S_Finish ==
    /\ dpc = "ollama"
    /\ \E outcome \in SummarizerOutcomes :
       \E result \in {SummaryOf(outcome, summary.sorted_responses[1])} :
       \E listed \in {FooterClients(responses)} :
          /\ summary' = [summary EXCEPT !.outcome = outcome,
                                        !.body = result.body,
                                        !.summary_method = result.summary_method,
                                        !.listed = listed]
          /\ ai_response' = AIResponse(ai_request, result.body,
                                       result.summary_method, listed)
    /\ dpc' = "done"
    /\ UNCHANGED << ai_request, tasks, monitor, responses >>
    /\ UNCHANGED << seq_vars, thread_vars, eval_vars, world_vars >>

\* ---------------------------------------------- the monitor, poll by poll
\* M_Poll with the outcome of line 486 kept in monitor.polled
M_PollObserved(client_id) ==
    /\ dpc = "monitor"
    /\ client_id \in FannedOut \ monitor.completed_clients
    /\ LET task == TaskOf(client_id)
       IN  IF task.state = "dead"
           THEN monitor' = Ended(client_id)
           ELSE \E status \in PollOutcomesOf(task) :
                   monitor' = [Polled(client_id, status) EXCEPT
                       !.polled = [request_id |-> task.request_id,
                                   client_id |-> client_id,
                                   status |-> status]]
    /\ UNCHANGED << ai_request, dpc, tasks, responses, summary, ai_response >>
    /\ UNCHANGED << seq_vars, thread_vars, eval_vars, world_vars >>

NextMonitor ==
    \/ D_Start
    \/ \E client_id \in 1..MaxWorkers :
          \/ W_Prepare(client_id) \/ WorkerFinish(client_id)
          \/ W_RpcError(client_id) \/ W_Return(client_id)
          \/ M_PollObserved(client_id)
    \/ M_Join

InitDispatch ==
    /\ \E cl \in WorkerRegistries, held \in DispatchCatalogs :
       \E selected \in SelectionsFor(cl, held) :
       \E after \in {LocalsAfter(EmptyLocals, cl, held, selected)} :
       \E assignments \in {Returned(cl, held, after)} :
       \E joining \in {0} \cup ClientIdsOf(cl) :
          /\ clients = Stored(ApplyAssignments(cl, assignments), joining)
          /\ model_assignments = AssignmentsField(<<>>, cl, held, assignments)
          /\ locals = after
    /\ available_models \in DispatchCatalogs
    /\ request = NoRequest
    /\ prior = NoClient
    /\ response = NoResponse
    /\ ThreadsIdle
    /\ NoDispatch
    /\ NotEvaluated
    /\ ClockAtStart

NextDispatch ==
    \/ D_Start
    \/ \E client_id \in 1..MaxWorkers :
          \/ W_Prepare(client_id) \/ WorkerFinish(client_id)
          \/ W_RpcError(client_id) \/ W_Return(client_id)
          \/ M_Poll(client_id)
    \/ M_Join \/ D_Test \/ S_Sort \/ S_Finish

SpecDispatch == InitDispatch /\ [][NextDispatch]_vars

\* The monitor reads neither catalog nor scores: the dispatches of a server
\* whose latest discovery listed one model and whose workers score alike
InitMonitor ==
    /\ InitDispatch
    /\ available_models = DiscoverAvailableModels(<<"gemma2:2b">>)
    /\ \A i \in DOMAIN clients : clients[i].performance_score = 50

SpecMonitor == InitMonitor /\ [][NextMonitor]_vars

\* ------------------------------------------------ the dispatch, scheduled
\* The thread of ProcessRequest keeps running: the monitor loop comes round
\* to every worker (lines 464-467), and the steps after it follow.  What
\* the workers do, and when, is left open.
SpecFair ==
    /\ InitMonitor
    /\ [][NextDispatch]_vars
    /\ \A client_id \in 1..MaxWorkers : WF_vars(M_Poll(client_id))
    /\ WF_vars(M_Join)
    /\ WF_vars(D_Test)
    /\ WF_vars(S_Sort)
    /\ WF_vars(S_Finish)

\* ------------------------------------ a reassignment during the dispatch
\* One ReassignModels served while the threads of a dispatch run: it holds
\* self._lock, which the threads never take, and writes the records the
\* threads read (lines 165-168).
ReassignDuringDispatch ==
    /\ response.rpc = None
    /\ ReassignModelsFrom(DispatchCatalogs)
    /\ UNCHANGED << thread_vars, aux_vars >>

NextReassigned ==
    \/ D_Start
    \/ \E client_id \in 1..MaxWorkers :
          \/ W_Prepare(client_id) \/ WorkerFinish(client_id)
          \/ W_RpcError(client_id) \/ W_Return(client_id)
    \/ ReassignDuringDispatch

\* No registration is under way: every record has its model
InitReassigned ==
    /\ InitMonitor
    /\ \A i \in DOMAIN clients : clients[i].assigned_model # None

SpecReassigned == InitReassigned /\ [][NextReassigned]_vars


\* ------------------------------------- a dispatch beside the handlers
\* ProcessRequest lines 225-235: the AIResponse after an exception
DictionaryChangedText == "Error: dictionary changed size during iteration"

AIErrorResponse(req, text) ==
    [request_id |-> req.request_id, success |-> FALSE, body |-> text,
     summary_method |-> None, listed |-> <<>>]

\* The loops over self.clients.items() at lines 264 and 332 run without
\* the lock.  Here handler h stores a new key (line 65) while one of them
\* is under way: the next step of the iterator raises RuntimeError, which
\* ProcessRequest catches.  In the loop of line 264 no thread has been
\* started yet; in the loop of line 332 the first `started` have.
D_StartInterrupted(h) ==
    /\ dpc = "idle"
    /\ clients # <<>>
    /\ pc[h] = "rc_store"
    /\ frame[h].req.client_id \notin ClientIdsOf(clients)
    /\ clients' = StoreClient(clients, frame[h].req)
    /\ pc' = [pc EXCEPT ![h] = "rc_assign"]
    /\ \E req \in AIRequests, started \in 0..Len(clients) :
          /\ ai_request' = req
          /\ tasks' = List([i \in 1..started |-> StartedTask(clients[i].client_id, req)])
          /\ ai_response' = AIErrorResponse(req, DictionaryChangedText)
    /\ dpc' = "done"
    /\ UNCHANGED << available_models, model_assignments, locals, request, prior,
                    response, lock, frame >>
    /\ UNCHANGED << monitor, responses, summary, eval_vars, world_vars >>

\* The two locked handlers thread by thread, and the start of a dispatch
NextSnapshot ==
    \/ \E h \in Handlers :
          \/ RC_Acquire(h) \/ RC_Store(h) \/ RC_Assign(h) \/ RC_Update(h)
          \/ RC_Respond(h)
          \/ RM_Acquire(h) \/ RM_Discover(h) \/ RM_Assign(h) \/ RM_Update(h)
          \/ D_StartInterrupted(h)
    \/ D_Start

SpecSnapshot == InitConc /\ [][NextSnapshot]_vars

\* ------------------------------------------------ the registry over time
\* Workers that register, and register again, with the same specs
SeenRequests ==
    [client_id : 1..MaxRegistered, performance_score : {50},
     models : {<<>>}, ip_address : {"10.0.0.1"}]

\* RegisterClient called by one of them
RegisterSeen ==
    \E req \in SeenRequests :
        \E selected \in SelectionsFor(StoreClient(clients, req), available_models) :
            RegisterStep(req, selected, available_models)

\* time.time() moves on
Tick ==
    /\ now < MaxTime
    /\ now' = now + 1
    /\ UNCHANGED << seq_vars, thread_vars, dispatch_vars, eval_vars, ollama >>

\* Registrations, the passing of time, and the start of a dispatch: every
\* operation of the server that reads or writes a record's last_seen or
\* the set of records.
NextLiveness ==
    \/ RegisterSeen /\ UNCHANGED << thread_vars, aux_vars >>
    \/ Tick
    \/ D_Start

SpecLiveness == Init /\ [][NextLiveness]_vars

\* --------------------------------------------------------- rebalancing
\* The server is constructed with the listing of that moment (__init__
\* runs discover_available_models); models are installed and removed on
\* the coordinator afterwards, and a later discovery finds the listing of
\* its own moment.
InitRebalance ==
    /\ clients = <<>>
    /\ ollama \in DiscoveryOutcomes
    /\ available_models = DiscoverAvailableModels(ollama)
    /\ model_assignments = <<>>
    /\ locals = EmptyLocals
    /\ request = NoRequest
    /\ prior = NoClient
    /\ response = NoResponse
    /\ ThreadsIdle
    /\ NoDispatch
    /\ NotEvaluated
    /\ now = 0

\* `ollama list` comes to give something else
ListingChanges ==
    /\ ollama' \in DiscoveryOutcomes
    /\ UNCHANGED << seq_vars, thread_vars, dispatch_vars, eval_vars, now >>

\* ReassignModels, whose discovery reads the listing of the moment
ReassignListed ==
    /\ ReassignModelsFrom({DiscoverAvailableModels(ollama)})
    /\ UNCHANGED << thread_vars, aux_vars >>

NextRebalance ==
    \/ RegisterSeen /\ UNCHANGED << thread_vars, aux_vars >>
    \/ ListingChanges
    \/ ReassignListed

SpecRebalance == InitRebalance /\ [][NextRebalance]_vars

\* ------------------------------------------------- the catalog over time
\* Arguments of add_custom_model: names, and parameter counts (in millions)
\* on both sides of every threshold of __post_init__
CustomNames == {"custom-a", "gemma3:1b"}

CustomParameters ==
    {0, 99, 100, 499, 500, 999, 1000, 2999, 3000, 6999, 7000, 7999, 8000,
     12999, 13000, 29999, 30000, 69999, 70000, 405000}

\* Mutant of AddCustomModel: the append without the sort
AddCustomModelUnsorted ==
    /\ Len(available_models) < MaxCatalog
    /\ \E name \in CustomNames, parameters \in CustomParameters :
          available_models' = Append(available_models, ModelInfo(name, parameters, 0))
    /\ UNCHANGED << clients, model_assignments, locals, request, prior, response >>
    /\ UNCHANGED << thread_vars, aux_vars >>

\* add_custom_model lines 304-310: ModelInfo(name, parameters, size_gb, 0),
\* append, sort by parameters
AddCustomModel ==
    /\ Len(available_models) < MaxCatalog
    /\ \E name \in CustomNames, parameters \in CustomParameters :
       \E appended \in {Append(available_models, ModelInfo(name, parameters, 0))} :
          available_models' = Sorted(appended, ParametersOf(appended), FALSE)
    /\ UNCHANGED << clients, model_assignments, locals, request, prior, response >>
    /\ UNCHANGED << thread_vars, aux_vars >>

\* discover_available_models, called again
Rediscover ==
    /\ \E outcome \in DiscoveryOutcomes :
          available_models' = DiscoverAvailableModels(outcome)
    /\ UNCHANGED << clients, model_assignments, locals, request, prior, response >>
    /\ UNCHANGED << thread_vars, aux_vars >>

NextCatalog == AddCustomModel \/ Rediscover

SpecCatalog == Init /\ [][NextCatalog]_vars

\* ------------------------------------------------- the summarization model
\* Mutant of GetBestLocalModel: the most complex model, whatever is there
GetBestLocalModelNoPreference(models) ==
    IF models # <<>>
    THEN models[CHOOSE i \in DOMAIN models :
                   /\ \A j \in DOMAIN models :
                         models[j].complexity_score <= models[i].complexity_score
                   /\ \A j \in 1..(i - 1) :
                         models[j].complexity_score < models[i].complexity_score].name
    ELSE "gemma3:1b"

\* _get_best_local_model: "gemma3:1b" if the catalog has it; else the first
\* model of the highest complexity_score (max returns the first maximum);
\* "gemma3:1b" for an empty catalog.
GetBestLocalModel(models) ==
    IF \E i \in DOMAIN models : models[i].name = "gemma3:1b"
    THEN "gemma3:1b"
    ELSE IF models # <<>>
    THEN models[CHOOSE i \in DOMAIN models :
                   /\ \A j \in DOMAIN models :
                         models[j].complexity_score <= models[i].complexity_score
                   /\ \A j \in 1..(i - 1) :
                         models[j].complexity_score < models[i].complexity_score].name
    ELSE "gemma3:1b"

\* line 374: best_local_model = self._get_best_local_model()
SelectSummarizer ==
    /\ summary.model = None
    /\ summary' = [summary EXCEPT !.model = GetBestLocalModel(available_models)]
    /\ UNCHANGED << seq_vars, thread_vars, eval_vars, world_vars >>
    /\ UNCHANGED << ai_request, dpc, tasks, monitor, responses, ai_response >>

\* The catalog as discoveries and custom models leave it, then the choice
NextSummarizer ==
    \/ summary.model = None /\ AddCustomModel
    \/ summary.model = None /\ Rediscover
    \/ SelectSummarizer

SpecSummarizer == Init /\ [][NextSummarizer]_vars

\* -------------------------------------------------- performance evaluator
\* Scores are in hundredths of a point; frequencies and RAM sizes in halves
\* of their unit, so that every product below is exact, as it is in binary
\* floating point.

\* min(a, b) of Python is Min; round(x, 1): to the nearest tenth of a point,
\* an exact tie to the even tenth
Round1(x) ==
    LET q == x \div 10
        r == x % 10
    IN  IF r < 5 THEN q * 10
        ELSE IF r > 5 THEN (q + 1) * 10
        ELSE IF q % 2 = 0 THEN q * 10 ELSE (q + 1) * 10

\* gpu_info is the set of the keywords of lines 210-243 that occur in
\* specs['gpu_info'].lower()
GpuInfos ==
    { {},
      {"nvidia"},
      {"nvidia", "rtx", "rtx 40"},
      {"nvidia", "rtx", "rtx 30"},
      {"nvidia", "quadro"},
      {"nvidia", "rtx"},
      {"nvidia", "gtx"},
      {"amd", "radeon", "rx 6"},
      {"amd", "vega"},
      {"radeon"},
      {"intel", "arc"},
      {"intel", "iris", "iris xe"},
      {"intel"},
      {"apple", "m3"},
      {"apple", "m2"},
      {"m1"},
      {"apple"},
      {"nvidia", "intel", "a100"} }

AnyIn(keywords, gpu_info) == keywords \cap gpu_info # {}

\* lines 207-245
GpuScore(gpu_info) ==
    IF "nvidia" \in gpu_info
    THEN IF AnyIn({"rtx 40", "a100", "h100"}, gpu_info) THEN 3000
         ELSE IF AnyIn({"rtx 30", "v100", "a40"}, gpu_info) THEN 2800
         ELSE IF AnyIn({"rtx 20", "gtx 16", "quadro"}, gpu_info) THEN 2500
         ELSE IF "rtx" \in gpu_info THEN 2200
         ELSE IF "gtx" \in gpu_info THEN 1800
         ELSE 1500
    ELSE IF "amd" \in gpu_info \/ "radeon" \in gpu_info
    THEN IF AnyIn({"rx 7", "rx 6"}, gpu_info) THEN 2500
         ELSE IF AnyIn({"rx 5", "vega"}, gpu_info) THEN 2000
         ELSE 1500
    ELSE IF "intel" \in gpu_info
    THEN IF "arc" \in gpu_info THEN 2000
         ELSE IF "iris xe" \in gpu_info \/ "iris" \in gpu_info THEN 1200
         ELSE 800
    ELSE IF AnyIn({"apple", "m1", "m2", "m3"}, gpu_info)
    THEN IF "m3" \in gpu_info THEN 2800
         ELSE IF "m2" \in gpu_info THEN 2500
         ELSE IF "m1" \in gpu_info THEN 2200
         ELSE 2000
    ELSE 500

\* _calculate_performance_score; a missing key raises KeyError and the
\* except branch returns 50.0
CalculatePerformanceScore(s) ==
    IF {"cpu_cores", "cpu_frequency_ghz", "ram_gb", "gpu_info"} \subseteq DOMAIN s
    THEN LET cpu_base == Min(2000, s.cpu_cores * 150)
             cpu_freq == Min(2000, s.cpu_frequency_ghz * 300)
             cpu_score == cpu_base + cpu_freq
             ram_score == Min(3000, s.ram_gb * 75)
             gpu_score == GpuScore(s.gpu_info)
             total_score == cpu_score + ram_score + gpu_score
         IN  Round1(Min(10000, total_score))
    ELSE 5000

CoreCounts == {-MaxCores, -1, 0, 1, 4, MaxCores}
Frequencies == {-MaxFrequency, 0, 1, 5, MaxFrequency}
RamSizes == {-MaxRam, 0, 1, 16, MaxRam}

\* The dicts the evaluator is given: complete ones, and one without gpu_info
SpecsGiven ==
    [cpu_cores : CoreCounts, cpu_frequency_ghz : Frequencies,
     ram_gb : RamSizes, gpu_info : GpuInfos]
    \cup [cpu_cores : CoreCounts, cpu_frequency_ghz : {5}, ram_gb : {16}]

\* get_system_specs line 33: the one call of
\* _calculate_performance_score(specs)
Evaluate ==
    /\ specs = NoSpecs
    /\ \E s \in SpecsGiven :
          /\ specs' = s
          /\ performance_score' = CalculatePerformanceScore(s)
    /\ UNCHANGED << seq_vars, thread_vars, dispatch_vars, world_vars >>

SpecScore == Init /\ [][Evaluate]_vars

\* ================================================================ claims
\* assign_models_to_clients has run past its early returns
Called == locals # EmptyLocals

NumClients == Len(clients)
NumModels == Len(available_models)

ScoreOf(cid) == ClientOf(clients, cid).performance_score

RankOf(model_name) == GetModelInfo(available_models, model_name).complexity_score

MaxRank ==
    CHOOSE r \in {available_models[i].complexity_score : i \in DOMAIN available_models} :
        \A i \in DOMAIN available_models : available_models[i].complexity_score <= r

IsPermutationOf(seq, set) ==
    /\ Range(seq) = set
    /\ \A i, j \in DOMAIN seq : i # j => seq[i] # seq[j]

\* locals.sorted_clients lists every registered worker once, scores descending
ClientsScoreDescending ==
    /\ IsPermutationOf(locals.sorted_clients, ClientIdsOf(clients))
    /\ \A k, l \in DOMAIN locals.sorted_clients :
          k < l => ScoreOf(locals.sorted_clients[k]) >= ScoreOf(locals.sorted_clients[l])

\* locals.sorted_models lists every catalog model once, ranks descending
ModelsRankDescending ==
    /\ Len(locals.sorted_models) = NumModels
    /\ Range(locals.sorted_models) = Range(available_models)
    /\ \A k, l \in DOMAIN locals.sorted_models :
          k < l => locals.sorted_models[k].complexity_score
                      >= locals.sorted_models[l].complexity_score

\* C1: over a non-empty registry and a non-empty catalog the returned map
\* has exactly the registered workers as its domain, whatever the random
\* choices were.
C1_DomainIsRegistry ==
    Called => DOMAIN model_assignments = ClientIdsOf(clients)

C1_Witness ==
    /\ Called
    /\ NumModels >= 2
    /\ NumClients > NumModels
    /\ DOMAIN model_assignments = ClientIdsOf(clients)

\* C2 as stated: the worker with the (strictly) highest score holds a model
\* of maximum complexity rank, for every outcome of the random choice.
C2_TopWorkerGetsMaxRank ==
    Called =>
        \A c \in ClientIdsOf(clients) :
            (\A d \in ClientIdsOf(clients) \ {c} : ScoreOf(c) > ScoreOf(d))
                => RankOf(model_assignments[c]) = MaxRank

\* C2 amended: some worker of group 1, the one the random choice selected,
\* holds a model of maximum rank; it is the first worker of the
\* score-descending order (a highest-scoring one) when group 1 has a single
\* worker, which is always so when N <= M.
C2_Group1GetsMaxRank ==
    Called =>
        LET top == locals.sorted_clients[1]
        IN  /\ \A d \in ClientIdsOf(clients) : ScoreOf(top) >= ScoreOf(d)
            /\ top \in Range(locals.groups[1])
            /\ locals.selected[1] \in Range(locals.groups[1])
            /\ RankOf(model_assignments[locals.selected[1]]) = MaxRank
            /\ (NumClients <= NumModels => Len(locals.groups[1]) = 1)
            /\ (Len(locals.groups[1]) = 1 => RankOf(model_assignments[top]) = MaxRank)

\* the random choice passed over the highest-scoring worker
C2_Witness ==
    /\ Called
    /\ NumClients > NumModels
    /\ locals.selected[1] # locals.sorted_clients[1]
    /\ RankOf(model_assignments[locals.sorted_clients[1]]) < MaxRank
    /\ RankOf(model_assignments[locals.selected[1]]) = MaxRank

\* C3: with N <= M the k-th worker by descending score holds the k-th model
\* by descending complexity; the map is injective, uses exactly the top N
\* models and leaves M - N unused.
C3_TopModelsOneEach ==
    (Called /\ NumClients <= NumModels) =>
        /\ ClientsScoreDescending
        /\ ModelsRankDescending
        /\ \A k \in 1..NumClients :
              model_assignments[locals.sorted_clients[k]] = locals.sorted_models[k].name
        /\ \A c, d \in ClientIdsOf(clients) :
              c # d => model_assignments[c] # model_assignments[d]
        /\ Range(model_assignments) = {locals.sorted_models[k].name : k \in 1..NumClients}
        /\ Cardinality(NamesOf(available_models) \ Range(model_assignments))
              = NumModels - NumClients

C3_Witness ==
    /\ Called
    /\ NumClients = 2
    /\ NumModels = 3
    /\ ScoreOf(locals.sorted_clients[1]) > ScoreOf(locals.sorted_clients[2])
    /\ model_assignments[locals.sorted_clients[1]] = "llama3.1:8b"
    /\ model_assignments[locals.sorted_clients[2]] = "llama3.2:3b"

\* C4: with N > M there are M groups, the selected worker of group i is a
\* member of group i and ends up holding model[i] of the complexity-
\* descending order, so every catalog model is held by some worker.
C4_EveryGroupKeepsItsModel ==
    (Called /\ NumClients > NumModels) =>
        /\ ModelsRankDescending
        /\ Len(locals.groups) = NumModels
        /\ Len(locals.selected) = NumModels
        /\ \A i \in 1..NumModels :
              /\ locals.selected[i] \in Range(locals.groups[i])
              /\ model_assignments[locals.selected[i]] = locals.sorted_models[i].name
        /\ NamesOf(available_models) \subseteq Range(model_assignments)

C4_Witness ==
    /\ Called
    /\ NumModels = 2
    /\ NumClients = 3
    /\ model_assignments[locals.selected[1]] = locals.sorted_models[1].name
    /\ model_assignments[locals.selected[2]] = locals.sorted_models[2].name
    /\ locals.sorted_models[1].name # locals.sorted_models[2].name

GroupOf(cid) == CHOOSE i \in DOMAIN locals.groups : cid \in Range(locals.groups[i])

\* C6: a worker with a strictly higher score is never in a later group.
C6_GroupsFollowScores ==
    Called =>
        /\ \A c \in ClientIdsOf(clients) :
              \E i \in DOMAIN locals.groups : c \in Range(locals.groups[i])
        /\ \A w1, w2 \in ClientIdsOf(clients) :
              ScoreOf(w1) > ScoreOf(w2) => GroupOf(w1) <= GroupOf(w2)

C6_Witness ==
    /\ Called
    /\ \E w1, w2, w3 \in ClientIdsOf(clients) :
          /\ ScoreOf(w1) > ScoreOf(w2)
          /\ GroupOf(w1) = GroupOf(w2)
          /\ GroupOf(w2) < GroupOf(w3)

\* A RegisterClient call was handled in this step
Registered == request # NoRequest

\* C8 as stated: the Registration returned to a well-formed worker carries
\* the model stored for that worker in the registry and the registry size
\* with that worker included.
C8_ResponseReflectsRegistry ==
    Registered =>
        /\ response.success
        /\ request.client_id \in ClientIdsOf(clients)
        /\ response.assigned_model = ClientOf(clients, request.client_id).assigned_model
        /\ response.total_clients = NumClients

AssignOutcomes(cl, models) ==
    {AssignModelsToClients(cl, models, sel) : sel \in SelectionsFor(cl, models)}

C7_EveryWorkerHoldsCatalogModel ==
    \A i \in DOMAIN clients :
        /\ clients[i].assigned_model # None
        /\ clients[i].assigned_model \in NamesOf(available_models)

\* C11: a RegisterClient for an id that is already registered under another
\* address is answered success = false and leaves the record of that id as
\* it was (the address of the record is still the earlier one).
C11_ConflictingAddressRejected ==
    (Registered /\ prior # NoClient /\ prior.ip_address # request.ip_address)
        => /\ ~response.success
           /\ ClientOf(clients, request.client_id).ip_address = prior.ip_address

\* ---------------------------------------------------- claims on a dispatch
\* client ids of a list of response dicts
RespondersOf(resps) == {resps[i].client_id : i \in DOMAIN resps}

\* Workers whose ProcessAIRequest returned success = true
Successful ==
    {tasks[i].client_id : i \in {j \in DOMAIN tasks : tasks[j].outcome = "success"}}

\* Every worker of the fan-out has ended without a successful response
AllFailed ==
    /\ tasks # <<>>
    /\ \A i \in DOMAIN tasks :
          tasks[i].outcome \in {"attribute_error", "rpc_error", "unsuccessful"}

\* supports_vision of the catalog descriptor of model_name
VisionCapable(model_name) ==
    LET model_info == GetModelInfo(available_models, model_name)
    IN  /\ model_info # NoModelInfo
        /\ HasSupportsVision(model_info)
        /\ model_info.supports_vision

\* C12: a dispatch over an empty registry is answered as a failure
\* (success = false), and it starts no worker thread and polls no worker.
C12_EmptyRegistryDispatchFails ==
    (dpc = "done" /\ clients = <<>>)
        => /\ ~ai_response.success
           /\ tasks = <<>>
           /\ monitor = NoMonitor

\* C13: when every worker of the fan-out has failed (connect or RPC error,
\* or success = false), the dispatch answers the constant "no successful
\* responses" text, the summarizer was not called, and the AIResponse
\* carries the request_id of the caller.
C13_AllFailedGivesConstant ==
    (dpc = "done" /\ AllFailed)
        => /\ ai_response.body = NoSuccessfulResponsesText
           /\ ~summary.called
           /\ ai_response.request_id = ai_request.request_id

C13_Witness ==
    /\ dpc = "done"
    /\ AllFailed
    /\ \E i \in DOMAIN tasks : tasks[i].outcome = "rpc_error"
    /\ \E i \in DOMAIN tasks : tasks[i].outcome = "unsuccessful"

\* C14: once the dispatch has returned, if some worker returned
\* success = true then the summarizer was called and the request succeeded.
C14_OneSuccessSuffices ==
    (dpc = "done" /\ Successful # {})
        => /\ summary.called
           /\ ai_response.success

\* C15: the responses given to the summarizer and the clients listed in the
\* footer are exactly the workers that returned success = true, each once.
C15_CollectionIsExactlySuccessful ==
    (dpc = "done" /\ summary.called)
        => /\ RespondersOf(summary.input) = Successful
           /\ Range(summary.listed) = Successful
           /\ Len(summary.input) = Cardinality(Successful)
           /\ Len(summary.listed) = Cardinality(Successful)

\* C16: every worker thread that has run delivered its AIRequest, with the
\* images of the caller if the model assigned to the worker is
\* vision-capable in the catalog and with no image otherwise.
C16_ImagesFollowVision ==
    \A i \in DOMAIN tasks :
        tasks[i].state # "started"
            => /\ tasks[i].sent
               /\ tasks[i].images =
                     IF VisionCapable(ClientOf(clients, tasks[i].client_id).assigned_model)
                     THEN ai_request.images
                     ELSE <<>>

\* C17: when the monitor has ended and the joins have elapsed, every worker
\* the monitor saw COMPLETED with a successful response has that response
\* in the collection the dispatch is about to test.
C17_CompletedWorkerCollected ==
    dpc = "test" => \A w \in monitor.seen_completed : w \in RespondersOf(responses)

C19_SummarizerFailureDegrades ==
    (dpc = "done" /\ summary.called)
        => /\ ai_response.success
           /\ ai_response.body # SummaryFailedText
           /\ ai_response.summary_method # "Error"
           /\ summary.outcome # "ok"
                 => /\ ai_response.summary_method = "Best Client"
                    /\ ai_response.body = summary.sorted_responses[1].response

C19_Witness ==
    /\ dpc = "done"
    /\ summary.called
    /\ summary.outcome = "exception"
    /\ ai_response.success
    /\ ai_response.summary_method = "Best Client"

\* --------------------------------------------------- claims on the score
Evaluated == specs # NoSpecs

\* C20: the score computed from any specs, zero and negative numbers
\* included, is at least 0 and at most 100.
C20_ScoreWithinRange ==
    Evaluated => (performance_score >= 0 /\ performance_score <= 10000)

\* ------------------------------------------------- claims on the catalog
\* The thresholds of the rank, in millions of parameters
RankThresholds == {70000, 30000, 13000, 8000, 7000, 3000, 1000, 500, 100}

\* C21: every model of the catalog has a rank in 1..10, the rank is one more
\* than the number of thresholds its parameter count reaches, and among the
\* models of the catalog no fewer parameters means no lower rank.
C21_RankIsStepOfParameters ==
    \A i \in DOMAIN available_models :
        LET m == available_models[i]
        IN  /\ m.complexity_score \in 1..10
            /\ m.complexity_score =
                  1 + Cardinality({t \in RankThresholds : m.parameters >= t})
            /\ \A j \in DOMAIN available_models :
                  m.parameters <= available_models[j].parameters
                      => m.complexity_score <= available_models[j].complexity_score

C21_Witness ==
    /\ \E i \in DOMAIN available_models :
          /\ available_models[i].parameters = 7999
          /\ available_models[i].complexity_score = 6
    /\ \E i \in DOMAIN available_models :
          /\ available_models[i].parameters = 70000
          /\ available_models[i].complexity_score = 10

\* ------------------------------------------------ claims on the registry
\* C22: a record whose worker has not been seen for the liveness timeout is
\* removed, and a dispatch started afterwards fans out only to the workers
\* that remain.  Whatever the timeout is, if it is shorter than MaxTime
\* ticks then no record is MaxTime ticks old, and no dispatch has a thread
\* for a worker last seen MaxTime ticks before it started.
C22_StaleWorkersRemoved ==
    /\ \A i \in DOMAIN clients : now - clients[i].last_seen < MaxTime
    /\ \A i \in DOMAIN tasks :
          monitor.start_time - ClientOf(clients, tasks[i].client_id).last_seen
              < MaxTime

\* --------------------------------------------------- claims on rebalancing
\* The step is a ReassignModels call
ReassignModelsStep == response'.rpc = "ReassignModels" /\ ollama' = ollama

\* The catalog was rebuilt from the listing of the moment, and every
\* registered worker was given a model of it
RediscoveredAndReassigned ==
    /\ available_models' = DiscoverAvailableModels(ollama')
    /\ ClientIdsOf(clients') = ClientIdsOf(clients)
    /\ DOMAIN model_assignments' = ClientIdsOf(clients)
    /\ \A i \in DOMAIN clients' :
          /\ clients'[i].assigned_model = model_assignments'[clients'[i].client_id]
          /\ clients'[i].assigned_model \in NamesOf(available_models')

\* C23 as stated: every ReassignModels call rebuilds the catalog from a
\* fresh discovery and reassigns every registered worker, the call on an
\* empty registry included.
C23_EveryRebalanceRediscovers ==
    [][ReassignModelsStep => RediscoveredAndReassigned]_vars

\* C23: every ReassignModels call on a non-empty registry rebuilds the
\* catalog from a fresh discovery, reassigns every registered worker and
\* answers success; on an empty registry it answers failure and leaves the
\* catalog as it was.
C23_RebalanceRediscoversUnlessEmpty ==
    [][ReassignModelsStep =>
          IF clients = <<>>
          THEN /\ ~response'.success
               /\ available_models' = available_models
               /\ clients' = <<>>
          ELSE /\ response'.success
               /\ RediscoveredAndReassigned]_vars

C23_Witness ==
    /\ response.rpc = "ReassignModels"
    /\ response.success
    /\ Len(clients) = MaxRegistered
    /\ available_models = DiscoverAvailableModels(ollama)
    /\ available_models # DefaultModels

\* ------------------------------------------------- claims on the threads
\* Thread t is inside `with self._lock`
HoldsLock(t) == t \in Handlers /\ lock = t

\* Thread t stands between the first and the last step of a mutator
Mutating(t) == pc[t] # "idle"

\* C24: every thread that is mutating the registry or the assignment map
\* (RegisterClient, ReassignModels, the console 'reassign') holds the
\* registry lock, so at most one thread is mutating at a time.
C24_MutatorsHoldTheLock ==
    /\ \A t \in Threads : Mutating(t) => HoldsLock(t)
    /\ \A t, u \in Threads : (Mutating(t) /\ Mutating(u)) => t = u

\* The step is the fan-out of a dispatch
FanOutStep == dpc = "idle" /\ dpc' # "idle"

\* C25: the dispatch fans out to the registry as it is at one moment; no
\* record it reads is half-updated (assigned model not yet set); and a
\* handler running beside it does not make it fail.
C25_DispatchSeesSnapshot ==
    [][FanOutStep =>
          /\ \A i \in DOMAIN clients : clients[i].assigned_model # None
          /\ FannedOut' = ClientIdsOf(clients)
          /\ dpc' = "done" => ai_response'.success]_vars

\* The step reads the response list: the test of line 344, the sort and the
\* prompt of lines 355-364, the footer of lines 427-448.  None of them
\* takes responses_lock.
ReadsResponses == dpc \in {"test", "summarize", "ollama"} /\ dpc' # dpc

\* A thread that has not ended can still reach the append of line 316
CanStillAppend(client_id) == TaskOf(client_id).state # "dead"

\* C26: the response list is read only under the lock of the request or
\* once every appending thread has ended; it is never read while a thread
\* can still append to it.
C26_ResponsesReadAfterAppenders ==
    [][ReadsResponses => \A client_id \in FannedOut : ~CanStillAppend(client_id)]_vars

\* The step adds the worker to completed_clients
Entered(client_id) ==
    /\ client_id \notin monitor.completed_clients
    /\ client_id \in monitor'.completed_clients

\* The step is a poll whose outcome is in `statuses`
PollGave(statuses) ==
    /\ dpc = "monitor"
    /\ monitor'.polled # monitor.polled
    /\ monitor'.polled.status \in statuses

\* C27: the monitor loop ends exactly when every worker of the request is
\* in the completed set; a worker enters the set only when its thread has
\* ended or a poll of it gave COMPLETED or ERROR; a poll that gives QUEUED
\* or PROCESSING adds nobody.
C27_MonitorExitsWhenAllCompleted ==
    [][/\ (dpc = "monitor" /\ dpc' # "monitor")
            => monitor.completed_clients = FannedOut
       /\ (dpc = "monitor" /\ monitor.completed_clients = FannedOut)
            => (dpc' = "test" \/ monitor' = monitor)
       /\ \A client_id \in 1..MaxWorkers :
             Entered(client_id) =>
                \/ TaskOf(client_id).state = "dead"
                \/ /\ monitor'.polled.client_id = client_id
                   /\ monitor'.polled.status \in {"COMPLETED", "ERROR"}
       /\ PollGave({"QUEUED", "PROCESSING"})
            => monitor'.completed_clients = monitor.completed_clients]_vars

\* The loop has ended with one worker complete by a COMPLETED poll, its
\* thread still alive, and another by the end of its thread
C27_Witness ==
    /\ dpc = "test"
    /\ \E client_id \in monitor.seen_completed :
          TaskOf(client_id).state = "replying"
    /\ \E client_id \in FannedOut :
          TaskOf(client_id).outcome \in {"rpc_error", "attribute_error"}

\* C28: a status poll that fails or times out marks the worker neither
\* completed nor failed and does not end the request; the worker stays
\* among those still to poll.
C28_FailedPollChangesNothing ==
    [][PollGave({"RpcError"}) =>
          /\ monitor'.completed_clients = monitor.completed_clients
          /\ monitor'.polled.client_id \in FannedOut' \ monitor'.completed_clients
          /\ dpc' = "monitor"
          /\ UNCHANGED << tasks, responses, ai_response >>]_vars

\* The poll of a worker that has ended the prompt has failed, and the
\* worker is still to poll
C28_Witness ==
    /\ dpc = "monitor"
    /\ monitor.polled.status = "RpcError"
    /\ monitor.polled.client_id \notin monitor.completed_clients
    /\ TaskOf(monitor.polled.client_id).state = "replying"

\* The step is the build of the AIRequest of the worker (lines 297-303)
BuildsRequest(client_id) ==
    /\ client_id \in FannedOut
    /\ ~TaskOf(client_id).sent
    /\ tasks' # tasks
    /\ client_id \in FannedOut'
    /\ TaskOf(client_id)'.sent

\* C29: a dispatch starts exactly one task for each worker of the registry;
\* every task has the one request id generated for the dispatch and the
\* prompt of the caller, and the AIRequest it builds names the model
\* assigned to its worker; the status polls carry the same request id.
C29_OneTaskPerWorker ==
    [][/\ (FanOutStep /\ clients # <<>>) =>
            /\ Len(tasks') = Len(clients)
            /\ \A i \in DOMAIN clients :
                  /\ tasks'[i].client_id = clients[i].client_id
                  /\ tasks'[i].request_id = InternalRequestId
                  /\ tasks'[i].prompt = ai_request'.prompt
                  /\ clients[i].assigned_model # None
       /\ \A client_id \in 1..MaxWorkers :
             BuildsRequest(client_id) =>
                /\ TaskOf(client_id)'.assigned_model # ""
                /\ TaskOf(client_id)'.assigned_model =
                      ClientOf(clients, client_id).assigned_model
       /\ PollGave({"QUEUED", "PROCESSING", "COMPLETED", "ERROR", "RpcError"})
            => monitor'.polled.request_id = InternalRequestId]_vars

\* The groups one after the other
RECURSIVE Concatenated(_)
Concatenated(groups) ==
    IF groups = <<>> THEN <<>> ELSE Head(groups) \o Concatenated(Tail(groups))

\* C30: with more workers than models the score-sorted workers are cut
\* into as many contiguous groups as there are models, of size ceil(N/G)
\* for the first N mod G groups and floor(N/G) for the others; with at
\* most as many workers as models each worker is a group of its own; the
\* groups are non-empty, pairwise disjoint and cover the workers.
C30_GroupsPartitionWorkers ==
    LET sorted_clients == locals.sorted_clients
        groups == locals.groups
        N == Len(sorted_clients)
        G == Len(locals.sorted_models)
        Ceiling(n, g) == (n + g - 1) \div g
    IN  (N > 0 /\ G > 0) =>
           /\ Concatenated(groups) = sorted_clients
           /\ \A k \in DOMAIN groups : groups[k] # <<>>
           /\ \A j, k \in DOMAIN groups :
                 j # k => Range(groups[j]) \cap Range(groups[k]) = {}
           /\ IF N > G
              THEN /\ Len(groups) = G
                   /\ \A k \in 1..G :
                         Len(groups[k]) = IF k <= N % G
                                          THEN Ceiling(N, G)
                                          ELSE N \div G
              ELSE /\ Len(groups) = N
                   /\ \A k \in 1..N : Len(groups[k]) = 1

\* Three workers over two models: a group of two, then a group of one
C30_Witness ==
    /\ Len(locals.sorted_clients) = 3
    /\ Len(locals.sorted_models) = 2
    /\ Len(locals.groups) = 2
    /\ Len(locals.groups[1]) = 2
    /\ Len(locals.groups[2]) = 1

\* C31 as stated: workers are ordered by score descending, ties by worker
\* id ascending, whatever the order of registration.
C31_TiesBrokenById ==
    LET sorted_clients == locals.sorted_clients
    IN  (locals # EmptyLocals) =>
           \A i, j \in DOMAIN sorted_clients :
              i < j =>
                 \/ ScoreOf(sorted_clients[i]) > ScoreOf(sorted_clients[j])
                 \/ /\ ScoreOf(sorted_clients[i]) = ScoreOf(sorted_clients[j])
                    /\ sorted_clients[i] < sorted_clients[j]

\* C31: workers are ordered by score descending, ties kept in the order of
\* registration (the order of the registry), and the ordering holds every
\* registered worker once.
C31_TiesKeepRegistrationOrder ==
    LET sorted_clients == locals.sorted_clients
        registered(cid) == CHOOSE k \in DOMAIN clients : clients[k].client_id = cid
    IN  (locals # EmptyLocals) =>
           /\ Len(sorted_clients) = Len(clients)
           /\ Range(sorted_clients) = ClientIdsOf(clients)
           /\ \A i, j \in DOMAIN sorted_clients :
                 i < j =>
                    \/ ScoreOf(sorted_clients[i]) > ScoreOf(sorted_clients[j])
                    \/ /\ ScoreOf(sorted_clients[i]) = ScoreOf(sorted_clients[j])
                       /\ registered(sorted_clients[i]) < registered(sorted_clients[j])

\* Two workers of equal score, the one with the larger id registered first
\* and ordered first
C31_Witness ==
    /\ locals # EmptyLocals
    /\ \E i \in DOMAIN locals.sorted_clients :
          /\ i + 1 \in DOMAIN locals.sorted_clients
          /\ ScoreOf(locals.sorted_clients[i]) = ScoreOf(locals.sorted_clients[i + 1])
          /\ locals.sorted_clients[i] > locals.sorted_clients[i + 1]

\* C32: the catalog is ordered for the groups by complexity rank
\* descending, ties in rank by parameter count descending, then by
\* identifier ascending: of two models of equal rank the one with more
\* parameters goes to the stronger group.
C32_RankTiesByParameters ==
    LET sorted_models == locals.sorted_models
        ascending == <<"gemma2:2b", "llama3.1:8b", "llama3.2:1b", "llama3.2:3b">>
        place(name) == CHOOSE k \in DOMAIN ascending : ascending[k] = name
    IN  (locals # EmptyLocals) =>
           \A i, j \in DOMAIN sorted_models :
              i < j =>
                 \/ sorted_models[i].complexity_score > sorted_models[j].complexity_score
                 \/ /\ sorted_models[i].complexity_score = sorted_models[j].complexity_score
                    /\ sorted_models[i].parameters > sorted_models[j].parameters
                 \/ /\ sorted_models[i].complexity_score = sorted_models[j].complexity_score
                    /\ sorted_models[i].parameters = sorted_models[j].parameters
                    /\ place(sorted_models[i].name) <= place(sorted_models[j].name)

\* C33: after the construction and after every discovery, fallback to the
\* defaults and add_custom_model, the catalog is in ascending order of
\* parameter count.
C33_CatalogSortedByParameters ==
    \A i, j \in DOMAIN available_models :
       i < j => available_models[i].parameters <= available_models[j].parameters

\* A custom model has been added and sorted in before a larger model
C33_Witness ==
    \E i \in DOMAIN available_models :
       /\ available_models[i].name \in CustomNames
       /\ i + 1 \in DOMAIN available_models
       /\ available_models[i + 1].name \notin CustomNames
       /\ available_models[i].parameters < available_models[i + 1].parameters

\* C34: the summarization model is "gemma3:1b" if the catalog has it; else
\* a model of the catalog of the highest complexity rank; "gemma3:1b" for
\* an empty catalog.
C34_SummarizerModel ==
    (summary.model # None) =>
       IF "gemma3:1b" \in NamesOf(available_models)
       THEN summary.model = "gemma3:1b"
       ELSE IF available_models # <<>>
       THEN \E i \in DOMAIN available_models :
               /\ available_models[i].name = summary.model
               /\ \A j \in DOMAIN available_models :
                     available_models[j].complexity_score
                        <= available_models[i].complexity_score
       ELSE summary.model = "gemma3:1b"

\* The catalog has "gemma3:1b", and a model of higher rank that is passed over
C34_Witness ==
    /\ summary.model = "gemma3:1b"
    /\ \E i, j \in DOMAIN available_models :
          /\ available_models[i].name = "gemma3:1b"
          /\ available_models[j].complexity_score > available_models[i].complexity_score

\* C35: a RegisterClient that answers success=false leaves the registry
\* and the assignment map as they were before the call.
C35_FailedRegistrationChangesNothing ==
    [][(request' # NoRequest /\ response'.rpc = "RegisterClient"
                            /\ ~response'.success)
          => /\ clients' = clients
             /\ model_assignments' = model_assignments]_vars

\* C36: within one worker task the model that decides the vision filter,
\* the model named in the AIRequest and the model recorded with the
\* collected response are the same, also when the assigned model of the
\* worker changes while the task runs.
C36_TaskUsesOneModel ==
    /\ \A i \in DOMAIN tasks :
          tasks[i].sent => tasks[i].vision_model = tasks[i].assigned_model
    /\ \A i \in DOMAIN responses :
          ProtoString(responses[i].model) = TaskOf(responses[i].client_id).assigned_model

C38_CatalogNeverEmpty ==
    /\ available_models # <<>>
    /\ clients # <<>> => /\ DOMAIN model_assignments # {}
                         /\ locals.sorted_clients # <<>>

\* A ReassignModels whose discovery found a listing with no identifier it
\* could parse, over a registry with workers in it
C38_Witness ==
    /\ ollama # Failed
    /\ ollama # <<>>
    /\ \A i \in DOMAIN ollama : ParseModelInfo(ollama[i]) = NoModelInfo
    /\ response.rpc = "ReassignModels"
    /\ response.success
    /\ clients # <<>>
    /\ available_models = DefaultModels

\* C39: when a RegisterClient, a ReassignModels or a console 'reassign' has
\* just completed, the assignment map of the model manager has exactly the
\* registered ids as its keys and gives each worker the assigned_model of
\* its record.
C39_AssignmentCopiesAgree ==
    [][(\E t \in Threads : pc[t] # "idle" /\ pc'[t] = "idle")
          => /\ DOMAIN model_assignments' = ClientIdsOf(clients')
             /\ \A i \in DOMAIN clients' :
                   clients'[i].assigned_model =
                      model_assignments'[clients'[i].client_id]]_vars

====
